---- MODULE Spec2Model ----
(***************************************************************************)
(* Model of api/endpoints/iam_endpoints.py: password login, JWT issuance   *)
(* (create_access_token), JWT validation (user_is_authenticated), the      *)
(* permission check (user_is_authorized_for_permission) and the active-    *)
(* user check (get_current_active_user).                                   *)
(*                                                                         *)
(* Time is counted in ticks, TicksPerSecond to the second: datetime and    *)
(* timedelta values are tick counts, while the "exp" claim of an encoded   *)
(* token is a NumericDate in whole seconds, as jwt.encode writes it.       *)
(* Python values are records: None, False, the class object User, a user   *)
(* record, a token, an HTTPException.                                      *)
(***************************************************************************)
EXTENDS Integers, Sequences, FiniteSets

VARIABLES
    fake_users_db,               \* the module-level user store
    ACCESS_TOKEN_EXPIRE_MINUTES, \* config.ACCESS_TOKEN_EXPIRE_MINUTES
    utcnow,                      \* datetime.utcnow(), in ticks
    advances,                    \* how many times the clock was advanced
    changes,                     \* how many times the store was changed
    token,                       \* the bearer token the client holds
    issued,                      \* how that token was issued (history)
    res                          \* the outcome of the request just handled

vars == <<fake_users_db, ACCESS_TOKEN_EXPIRE_MINUTES, utcnow, advances,
          changes, token, issued, res>>

----------------------------------------------------------------------------
(* Bounds of the model *)

TicksPerSecond == 2
MaxAdvances == 3
MaxStoreChanges == 1
StartSecond == 2

(* Program constants *)

SecondsPerMinute == 60
DefaultExpireMinutes == 15
HTTP_401_UNAUTHORIZED == 401
HTTP_403_FORBIDDEN == 403
HTTP_400_BAD_REQUEST == 400

TicksPerMinute == SecondsPerMinute * TicksPerSecond

----------------------------------------------------------------------------
(* Python values *)

None == [py |-> "None"]
False == [py |-> "False"]
UserClass == [py |-> "class User"]

Truthy(v) == v \notin {None, False}

HTTPException(status_code, detail, headers) ==
    [py |-> "HTTPException", status_code |-> status_code, detail |-> detail,
     headers |-> headers]

BearerHeaders == [WWW_Authenticate |-> "Bearer"]

IsException(v) == "status_code" \in DOMAIN v

\* timedelta(...): an optional duration in ticks
timedelta(ticks) == [py |-> "timedelta", ticks |-> ticks]

\* bool(expires_delta): None and timedelta(0) are falsy
TimedeltaTruthy(expires_delta) ==
    expires_delta # None /\ expires_delta.ticks # 0

----------------------------------------------------------------------------
(* The store: fake_users_db and the pydantic models *)

DefineId == "b388caf0-baa3-4bd2-8e13-feb2fa7be097"
OtherId == "7d1c7a52-0000-4000-8000-000000000001"

\* uuid.UUID(text): the 128-bit value of a hex text; letter case and
\* hyphens do not matter
UUID(text) ==
    CASE text \in {"b388caf0-baa3-4bd2-8e13-feb2fa7be097",
                   "B388CAF0-BAA3-4BD2-8E13-FEB2FA7BE097",
                   "b388caf0baa34bd28e13feb2fa7be097"}
           -> [hex |-> "b388caf0baa34bd28e13feb2fa7be097"]
      [] text \in {"7d1c7a52-0000-4000-8000-000000000001",
                   "7D1C7A52-0000-4000-8000-000000000001"}
           -> [hex |-> "7d1c7a52000040008000000000000001"]

\* InitiativePermissions.Define.value
InitiativePermissions_Define == UUID(DefineId)

StoredHash == [scheme |-> "2b", salt |-> "mNFOzbWeA9EIrTK0um5K7O", of |-> "secret"]

InitialUsers ==
    [u \in {"elvinv", "vivim"} |->
        IF u = "elvinv"
        THEN [username |-> "elvinv", full_name |-> "Elvin Voh",
              email |-> "elvinv@example.com", hashed_password |-> StoredHash,
              disabled |-> FALSE, permissions |-> <<DefineId>>]
        ELSE [username |-> "vivim", full_name |-> "Vivi Mo",
              email |-> "vivim@example.com", hashed_password |-> StoredHash,
              disabled |-> FALSE, permissions |-> <<>>]]

\* UserInDB(**user_dict): pydantic parses each permission text to a UUID
UserInDB(user_dict) ==
    [user_dict EXCEPT
        !.permissions = [i \in DOMAIN user_dict.permissions |->
                            UUID(user_dict.permissions[i])]]

----------------------------------------------------------------------------
(* The inputs the requests draw from *)

Usernames == {"elvinv", "vivim", "mallory"}
Passwords == {"secret", "guess"}
PermissionIds == {UUID(DefineId), UUID(OtherId)}
ExpireMinutesChoices == {0, 1}
DeltaChoices == {None} \cup {timedelta(d) : d \in {-1, 0, 1}}
DataChoices ==
    {[sub |-> "mallory"], [role |-> "admin"], [sub |-> "elvinv", role |-> "admin"]}

----------------------------------------------------------------------------
(* passlib and python-jose, as the module uses them *)

OAUTH_SECRET_KEY == "OAUTH_SECRET_KEY"

\* bcrypt: the hash of a password under a salt
Bcrypt(plain_password, salt) ==
    [scheme |-> "2b", salt |-> salt, of |-> plain_password]

\* pwd_context.verify: re-hash under the stored salt and compare
verify_password(plain_password, hashed_password) ==
    Bcrypt(plain_password, hashed_password.salt) = hashed_password

\* timegm(dt.utctimetuple()): a datetime as whole seconds, fraction dropped
NumericDate(dt) == dt \div TicksPerSecond

\* HS256 over the payload: equal signatures iff equal payload and key
Sign(payload, key) == [over |-> payload, key |-> key]

\* jwt.encode: datetime claims become NumericDates, then the payload is signed
jwt_encode(claims, key) ==
    LET payload == [k \in DOMAIN claims |->
                       IF k = "exp" THEN NumericDate(claims[k]) ELSE claims[k]]
    IN  [payload |-> payload, sig |-> Sign(payload, key)]

JWTError(why) == [py |-> "JWTError", why |-> why]

\* jwt.decode: the signature is verified first, then the exp claim against
\* the clock (no leeway); the payload is returned when both pass
jwt_decode(tok, key, now) ==
    IF tok.sig # Sign(tok.payload, key)
    THEN JWTError("Signature verification failed.")
    ELSE IF "exp" \in DOMAIN tok.payload /\ tok.payload.exp < NumericDate(now)
    THEN JWTError("Signature has expired.")
    ELSE tok.payload

----------------------------------------------------------------------------
(* The functions of iam_endpoints.py *)

get_user(db, username) ==
    IF username \in DOMAIN db THEN UserInDB(db[username]) ELSE None

\* authenticate_user with the password test the wrong way round
authenticate_user_Inverted(fake_db, username, password) ==
    LET user == get_user(fake_db, username)
    IN  IF ~Truthy(user)
        THEN [ret |-> False, verify_calls |-> 0]
        ELSE IF verify_password(password, user.hashed_password)
        THEN [ret |-> False, verify_calls |-> 1]
        ELSE [ret |-> user, verify_calls |-> 1]

\* ret: the value returned; verify_calls: the calls of verify_password made
authenticate_user(fake_db, username, password) ==
    LET user == get_user(fake_db, username)
    IN  IF ~Truthy(user)
        THEN [ret |-> False, verify_calls |-> 0]
        ELSE IF ~verify_password(password, user.hashed_password)
        THEN [ret |-> False, verify_calls |-> 1]
        ELSE [ret |-> user, verify_calls |-> 1]

\* create_access_token that always takes the default lifetime
create_access_token_DefaultOnly(data, expires_delta, now) ==
    LET expire == now + DefaultExpireMinutes * TicksPerMinute
        to_encode == [k \in DOMAIN data \cup {"exp"} |->
                         IF k = "exp" THEN expire ELSE data[k]]
    IN  [ret |-> jwt_encode(to_encode, OAUTH_SECRET_KEY), data |-> data]

\* ret: the encoded token; data: the caller's dict after the call (the
\* function works on a copy)
create_access_token(data, expires_delta, now) ==
    LET expire == IF TimedeltaTruthy(expires_delta)
                  THEN now + expires_delta.ticks
                  ELSE now + DefaultExpireMinutes * TicksPerMinute
        to_encode == [k \in DOMAIN data \cup {"exp"} |->
                         IF k = "exp" THEN expire ELSE data[k]]
    IN  [ret |-> jwt_encode(to_encode, OAUTH_SECRET_KEY), data |-> data]

credentials_exception ==
    HTTPException(HTTP_401_UNAUTHORIZED, "Could not validate credentials",
                  BearerHeaders)

\* user_is_authenticated reading the claims without verifying the signature
user_is_authenticated_Unverified(tok, db, now) ==
    LET payload == IF tok.payload.exp < NumericDate(now)
                   THEN JWTError("Signature has expired.")
                   ELSE tok.payload
    IN  IF "why" \in DOMAIN payload
        THEN HTTPException(HTTP_401_UNAUTHORIZED,
                           "Could not validate credentials", BearerHeaders)
        ELSE IF "sub" \notin DOMAIN payload
        THEN HTTPException(HTTP_401_UNAUTHORIZED,
                           "Could not validate credentials", BearerHeaders)
        ELSE LET user == get_user(db, payload.sub)
             IN  IF user = None
                 THEN HTTPException(HTTP_401_UNAUTHORIZED,
                                    "Could not validate credentials",
                                    BearerHeaders)
                 ELSE user

user_is_authenticated(tok, db, now) ==
    LET payload == jwt_decode(tok, OAUTH_SECRET_KEY, now)
    IN  IF "why" \in DOMAIN payload
        THEN credentials_exception
        ELSE IF "sub" \notin DOMAIN payload
        THEN credentials_exception
        ELSE LET user == get_user(db, payload.sub)
             IN  IF user = None THEN credentials_exception ELSE user

\* user_is_authorized that allows whoever holds any permission
user_is_authorized_AnyPermission(permission_id, user) ==
    IF ~(\E i \in DOMAIN user.permissions : TRUE)
    THEN HTTPException(HTTP_403_FORBIDDEN, "User does not have access.", None)
    ELSE UserClass

\* the inner user_is_authorized, given the user its dependency resolved
user_is_authorized(permission_id, user) ==
    IF ~(\E i \in DOMAIN user.permissions : user.permissions[i] = permission_id)
    THEN HTTPException(HTTP_403_FORBIDDEN, "User does not have access.", None)
    ELSE UserClass

\* a route that depends on user_is_authorized_for_permission(permission_id):
\* user_is_authenticated runs first and its exception ends the request
user_is_authorized_for_permission(permission_id, tok, db, now) ==
    LET user == user_is_authenticated(tok, db, now)
    IN  IF IsException(user)
        THEN [ret |-> user, principal |-> None, authorizer_ran |-> FALSE]
        ELSE [ret |-> user_is_authorized(permission_id, user),
              principal |-> user, authorizer_ran |-> TRUE]

get_current_active_user(current_user) ==
    IF current_user.disabled
    THEN HTTPException(HTTP_400_BAD_REQUEST, "Inactive user", None)
    ELSE current_user

\* response_model=User: the response keeps the fields of User only
User(user) ==
    [k \in DOMAIN user \ {"hashed_password"} |-> user[k]]

\* GET /users/me/: user_is_authenticated, then get_current_active_user
read_users_me(tok, db, now) ==
    LET current_user == user_is_authenticated(tok, db, now)
    IN  IF IsException(current_user)
        THEN current_user
        ELSE LET active == get_current_active_user(current_user)
             IN  IF IsException(active) THEN active ELSE User(active)

\* login_for_access_token that tells an unknown username from a wrong password
login_for_access_token_Telling(form_data, db, now, expire_minutes) ==
    LET auth == authenticate_user(db, form_data.username, form_data.password)
    IN  IF ~Truthy(auth.ret)
        THEN [ret |-> HTTPException(HTTP_401_UNAUTHORIZED,
                          IF form_data.username \in DOMAIN db
                          THEN "Incorrect password" ELSE "Incorrect username",
                          BearerHeaders),
              auth |-> auth, access_token |-> None]
        ELSE LET access_token ==
                     create_access_token([sub |-> auth.ret.username],
                         timedelta(expire_minutes * TicksPerMinute), now).ret
             IN  [ret |-> [access_token |-> access_token, token_type |-> "bearer"],
                  auth |-> auth, access_token |-> access_token]

\* POST /token
login_for_access_token(form_data, db, now, expire_minutes) ==
    LET auth == authenticate_user(db, form_data.username, form_data.password)
    IN  IF ~Truthy(auth.ret)
        THEN [ret |-> HTTPException(HTTP_401_UNAUTHORIZED,
                                    "Incorrect username or password",
                                    BearerHeaders),
              auth |-> auth, access_token |-> None]
        ELSE LET access_token_expires ==
                     timedelta(expire_minutes * TicksPerMinute)
                 access_token ==
                     create_access_token([sub |-> auth.ret.username],
                                         access_token_expires, now).ret
             IN  [ret |-> [access_token |-> access_token, token_type |-> "bearer"],
                  auth |-> auth, access_token |-> access_token]

----------------------------------------------------------------------------
(* The state machine *)

Idle == [op |-> "idle"]

StartClock == StartSecond * TicksPerSecond

\* the amounts the clock moves between two requests
ClockSteps == {1, TicksPerMinute}

Init ==
    /\ fake_users_db = InitialUsers
    /\ ACCESS_TOKEN_EXPIRE_MINUTES \in ExpireMinutesChoices
    /\ utcnow = StartClock
    /\ advances = 0
    /\ changes = 0
    /\ token = None
    /\ issued = None
    /\ res = Idle

\* POST /token; the client keeps the token of a successful login
Login(username, password) ==
    LET out == login_for_access_token(
                   [username |-> username, password |-> password],
                   fake_users_db, utcnow, ACCESS_TOKEN_EXPIRE_MINUTES)
    IN  /\ res' = [op |-> "login_for_access_token", username |-> username,
                   password |-> password, out |-> out]
        /\ IF out.access_token = None
           THEN UNCHANGED <<token, issued>>
           ELSE /\ token' = out.access_token
                /\ issued' = [token |-> out.access_token, at |-> utcnow,
                              data |-> [sub |-> username],
                              expires_delta |->
                                  timedelta(ACCESS_TOKEN_EXPIRE_MINUTES
                                                * TicksPerMinute)]
        /\ UNCHANGED <<fake_users_db, ACCESS_TOKEN_EXPIRE_MINUTES, utcnow,
                       advances, changes>>

\* a direct call of create_access_token
Issue(data, expires_delta) ==
    LET out == create_access_token(data, expires_delta, utcnow)
    IN  /\ res' = [op |-> "create_access_token", out |-> out]
        /\ token' = out.ret
        /\ issued' = [token |-> out.ret, at |-> utcnow, data |-> data,
                      expires_delta |-> expires_delta]
        /\ UNCHANGED <<fake_users_db, ACCESS_TOKEN_EXPIRE_MINUTES, utcnow,
                       advances, changes>>

\* a request to a route that depends on user_is_authenticated only
Validate ==
    /\ token # None
    /\ res' = [op |-> "user_is_authenticated",
               out |-> user_is_authenticated(token, fake_users_db, utcnow)]
    /\ UNCHANGED <<fake_users_db, ACCESS_TOKEN_EXPIRE_MINUTES, utcnow,
                   advances, changes, token, issued>>

\* a request to a route guarded by user_is_authorized_for_permission
Authorize(permission_id) ==
    /\ token # None
    /\ res' = [op |-> "user_is_authorized", permission_id |-> permission_id,
               out |-> user_is_authorized_for_permission(
                           permission_id, token, fake_users_db, utcnow)]
    /\ UNCHANGED <<fake_users_db, ACCESS_TOKEN_EXPIRE_MINUTES, utcnow,
                   advances, changes, token, issued>>

\* GET /users/me/
ReadUsersMe ==
    /\ token # None
    /\ res' = [op |-> "read_users_me",
               out |-> read_users_me(token, fake_users_db, utcnow)]
    /\ UNCHANGED <<fake_users_db, ACCESS_TOKEN_EXPIRE_MINUTES, utcnow,
                   advances, changes, token, issued>>

\* time passes between two requests
Advance(step) ==
    /\ advances < MaxAdvances
    /\ utcnow' = utcnow + step
    /\ advances' = advances + 1
    /\ res' = Idle
    /\ UNCHANGED <<fake_users_db, ACCESS_TOKEN_EXPIRE_MINUTES, changes,
                   token, issued>>

\* the client alters the token it was given: a flipped signature, or an
\* edited payload under the old signature
TamperedTokens(tok) ==
    IF tok = None
    THEN {}
    ELSE {[tok EXCEPT !.sig.key = "flipped"],
          [tok EXCEPT !.payload.exp = @ + SecondsPerMinute]}
             \cup (IF "sub" \in DOMAIN tok.payload
                   THEN {[tok EXCEPT !.payload.sub = u] :
                             u \in {"elvinv"} \ {tok.payload.sub}}
                   ELSE {})

Tamper(tok) ==
    /\ issued # None
    /\ token = issued.token
    /\ token' = tok
    /\ res' = Idle
    /\ UNCHANGED <<fake_users_db, ACCESS_TOKEN_EXPIRE_MINUTES, utcnow,
                   advances, changes, issued>>

\* the account administration sets a record's disabled flag
DisableUser(username) ==
    /\ changes < MaxStoreChanges
    /\ username \in DOMAIN fake_users_db
    /\ ~fake_users_db[username].disabled
    /\ fake_users_db' = [fake_users_db EXCEPT ![username].disabled = TRUE]
    /\ changes' = changes + 1
    /\ res' = Idle
    /\ UNCHANGED <<ACCESS_TOKEN_EXPIRE_MINUTES, utcnow, advances, token,
                   issued>>

\* the account administration removes a record
DeleteUser(username) ==
    /\ changes < MaxStoreChanges
    /\ username \in DOMAIN fake_users_db
    /\ fake_users_db' = [u \in DOMAIN fake_users_db \ {username} |->
                            fake_users_db[u]]
    /\ changes' = changes + 1
    /\ res' = Idle
    /\ UNCHANGED <<ACCESS_TOKEN_EXPIRE_MINUTES, utcnow, advances, token,
                   issued>>

Next ==
    \/ \E u \in Usernames, p \in Passwords : Login(u, p)
    \/ \E data \in DataChoices, d \in DeltaChoices : Issue(data, d)
    \/ Validate
    \/ \E p \in PermissionIds : Authorize(p)
    \/ ReadUsersMe
    \/ \E step \in ClockSteps : Advance(step)
    \/ \E tok \in TamperedTokens(token) : Tamper(tok)
    \/ \E u \in Usernames : DisableUser(u)
    \/ \E u \in Usernames : DeleteUser(u)

Spec == Init /\ [][Next]_vars

----------------------------------------------------------------------------
(* Vocabulary of the properties *)

IsLogin == res.op = "login_for_access_token"
IsValidate == res.op = "user_is_authenticated"
IsAuthorize == res.op = "user_is_authorized"
IsIssue == res.op = "create_access_token"

\* the pair (username, password) is one the store holds
ValidPair(username, password) ==
    /\ username \in DOMAIN fake_users_db
    /\ verify_password(password, fake_users_db[username].hashed_password)

\* the client holds the token exactly as it was issued
HoldsIssuedToken == issued # None /\ token = issued.token

\* the ttl the token was issued with, when one was supplied
TtlSupplied == issued.expires_delta # None
Ttl == issued.expires_delta.ticks

\* the four checks of a validation, each on its own
SignatureOk == token.sig = Sign(token.payload, OAUTH_SECRET_KEY)
HasSubject == "sub" \in DOMAIN token.payload
NotExpired == token.payload.exp >= NumericDate(utcnow)
SubjectInStore == HasSubject /\ token.payload.sub \in DOMAIN fake_users_db

\* the first check that fails, in the order signature, subject, expiry, store
FirstFailedCheck(tok, db, now) ==
    IF tok.sig # Sign(tok.payload, OAUTH_SECRET_KEY) THEN "InvalidSignature"
    ELSE IF "sub" \notin DOMAIN tok.payload THEN "MissingSubject"
    ELSE IF tok.payload.exp < NumericDate(now) THEN "Expired"
    ELSE IF tok.payload.sub \notin DOMAIN db THEN "UnknownSubject"
    ELSE "none"

----------------------------------------------------------------------------
(* C1: a login with a username of the store and a password that verifies  *)
(* against its stored hash is authenticated, and the record returned by    *)
(* authenticate_user is the one of that username.                          *)

C1_ValidPairAuthenticates ==
    (IsLogin /\ ValidPair(res.username, res.password))
        => /\ Truthy(res.out.auth.ret)
           /\ res.out.auth.ret.username = res.username
           /\ res.out.auth.ret = UserInDB(fake_users_db[res.username])

C1_Witness ==
    /\ IsLogin
    /\ res.username = "vivim"
    /\ ValidPair(res.username, res.password)
    /\ res.out.auth.ret.username = "vivim"

(* C2: a failed login gives the caller the same result whatever failed:    *)
(* the result of the failed login just handled equals the result of every  *)
(* other failing pair, unknown username or wrong password, both for        *)
(* authenticate_user and for the login response.                           *)

C2_FailuresIndistinguishable ==
    (IsLogin /\ ~ValidPair(res.username, res.password))
        => \A u \in Usernames, p \in Passwords :
               ~ValidPair(u, p)
                   => /\ authenticate_user(fake_users_db, u, p).ret
                             = res.out.auth.ret
                      /\ login_for_access_token(
                             [username |-> u, password |-> p], fake_users_db,
                             utcnow, ACCESS_TOKEN_EXPIRE_MINUTES).ret
                             = res.out.ret
                      /\ IsException(res.out.ret)

C2_Witness ==
    /\ IsLogin
    /\ res.username \notin DOMAIN fake_users_db
    /\ IsException(res.out.ret)
    /\ \E u \in DOMAIN fake_users_db, p \in Passwords : ~ValidPair(u, p)

(* C3: a token issued at time t0 with a ttl T > 0, for a subject that is   *)
(* in the store, is accepted by a validation at every clock value up to    *)
(* t0 + T; a validation is rejected, with the one 401 of the validator,    *)
(* at every clock value whose whole second is later than the whole second  *)
(* of t0 + T, so at the latest one second after t0 + T and ever after.     *)

C3_Case ==
    /\ IsValidate
    /\ HoldsIssuedToken
    /\ TtlSupplied
    /\ Ttl > 0
    /\ SubjectInStore

C4_AllowIffMember ==
    (IsAuthorize /\ res.out.authorizer_ran)
        => LET held == {res.out.principal.permissions[i] :
                            i \in DOMAIN res.out.principal.permissions}
           IN  /\ res.permission_id \in held => ~IsException(res.out.ret)
               /\ res.permission_id \notin held
                      => /\ IsException(res.out.ret)
                         /\ res.out.ret.status_code = HTTP_403_FORBIDDEN
               /\ held = {} => IsException(res.out.ret)

C4_Witness ==
    /\ IsAuthorize
    /\ res.out.authorizer_ran
    /\ res.out.principal.username = "elvinv"
    /\ res.permission_id = InitiativePermissions_Define
    /\ ~IsException(res.out.ret)

(* C5: a request of an identity whose disabled flag is set never reaches   *)
(* the permission check and never ends authorized.                         *)

C5_DisabledNeverAuthorized ==
    (IsAuthorize /\ SubjectInStore
        /\ fake_users_db[token.payload.sub].disabled)
        => ~res.out.authorizer_ran /\ IsException(res.out.ret)

(* C6: once the account of a token's subject is deleted or disabled, the   *)
(* next validation of that token is rejected, though its signature is      *)
(* valid and its expiry has not passed.                                    *)

C6_StoreChange ==
    /\ fake_users_db' # fake_users_db
    /\ token # None
    /\ SignatureOk /\ HasSubject /\ NotExpired
    /\ token.payload.sub \in DOMAIN fake_users_db
    /\ ~fake_users_db[token.payload.sub].disabled
    /\ \/ token.payload.sub \notin DOMAIN fake_users_db'
       \/ fake_users_db'[token.payload.sub].disabled

C6_NextValidationRejected ==
    [][C6_StoreChange
          => IsException(user_is_authenticated(token', fake_users_db', utcnow'))]_vars

(* C7: a validation returns the resolved identity exactly when the         *)
(* signature verifies, the expiry has not passed, the payload has a        *)
(* subject and the subject is in the store; when any of the four fails it  *)
(* raises the one 401 "Could not validate credentials", which does not     *)
(* name the check; a token with a modified signature yields no principal.  *)

NamesFailedCheck ==
    \A other \in TamperedTokens(token) :
        FirstFailedCheck(other, fake_users_db, utcnow)
                \notin {"none", FirstFailedCheck(token, fake_users_db, utcnow)}
            => user_is_authenticated(other, fake_users_db, utcnow) # res.out

C8_ExpiryAfterIssue ==
    HoldsIssuedToken => token.payload.exp * TicksPerSecond > issued.at

(* C9: exactly one call of verify_password precedes the result of          *)
(* authenticate_user, whether the username is known or not.                *)

C9_OneVerifyCall ==
    IsLogin => res.out.auth.verify_calls = 1

(* C10: the expiry of the token is the issuance time plus the ttl for      *)
(* every ttl supplied, zero included, and the issuance time plus 15        *)
(* minutes only when none is supplied; the claims passed in are carried    *)
(* unchanged and the caller's dict is left as it was.                      *)

C10_ExpiryIsIssuePlusTtl ==
    IsIssue
        => LET payload == res.out.ret.payload
               ttl == IF TtlSupplied THEN Ttl
                      ELSE DefaultExpireMinutes * TicksPerMinute
           IN  /\ payload.exp = NumericDate(issued.at + ttl)
               /\ DOMAIN payload = DOMAIN issued.data \cup {"exp"}
               /\ \A k \in DOMAIN issued.data \ {"exp"} :
                      payload[k] = issued.data[k]
               /\ res.out.data = issued.data

====
